---- MODULE Spec2Model ----
(***************************************************************************)
(* A model of streamlit_app.py (GAIN Signal Board): the HTTP helper, the   *)
(* four GitHub/liveness fetchers, the CSV loaders, the Sheets link         *)
(* normaliser, the st.cache_data(ttl=60) wrapper around the fetchers and   *)
(* the top-to-bottom render cycle of the page.                             *)
(*                                                                         *)
(* Text (links, URLs) is a sequence of tokens.  A token stands for a run   *)
(* of characters that none of the patterns the code searches for or splits *)
(* on can cut: "/", "#gid=", "d", "docs.google.com", ...  Concatenation of *)
(* text is \o, `sub in s` is Contains, s.split(sep) is Split.              *)
(*                                                                         *)
(* JSON bodies are tagged values: Null, Str, Num, List, Dict.              *)
(***************************************************************************)
EXTENDS Integers, Sequences, FiniteSets, TLC

VARIABLES
    GITHUB_TOKEN,       \* line 20: the optional token; "" when none is configured
    TZ,                 \* line 14: the display time zone, as its UTC offset in hours
    call,               \* the fetcher/helper call under study: its inputs and its outcome
    \* the render cycle (lines 244-287)
    pc,                 \* where the script stands
    live_mode,          \* line 248
    GITHUB_OWNER,       \* line 251
    GITHUB_REPO,        \* line 252
    STREAMLIT_APP_URL,  \* line 253
    SHEETS_CSV_URL,     \* line 257
    uploaded,           \* line 258: the uploaded file, "none" without one
    files,              \* latest_metrics.csv and data/latest_metrics.csv on disk
    page,               \* the elements rendered so far in this cycle, in order
    requests,           \* the GET requests sent so far in this cycle
    failed,             \* the fetchers that raised in this cycle
    loaded,             \* what each CSV origin gave in this cycle
    \* the st.cache_data(ttl=60) wrapper of the five fetchers
    now,                \* the clock, in seconds
    cache,              \* per fetcher and argument tuple, the stored entry
    lastcall,           \* per fetcher and argument tuple, the latest call
    last,               \* the latest call of all, with the entry it found
    ncalls              \* the number of calls made

cfgVars    == <<GITHUB_TOKEN, TZ>>
cacheVars  == <<now, cache, lastcall, last, ncalls>>
renderVars == <<pc, live_mode, GITHUB_OWNER, GITHUB_REPO, STREAMLIT_APP_URL,
                SHEETS_CSV_URL, uploaded, files, page, requests, failed, loaded>>
vars == <<cfgVars, call, renderVars, cacheVars>>
notCall == <<cfgVars, renderVars, cacheVars>>

-----------------------------------------------------------------------------
(* Text *)

\* s[i..] starts with sub
StartsAt(s, sub, i) ==
    /\ i + Len(sub) - 1 <= Len(s)
    /\ \A k \in 1..Len(sub) : s[i + k - 1] = sub[k]

\* Python's `sub in s`
Contains(s, sub) == \E i \in 1..(Len(s) + 1) : StartsAt(s, sub, i)

\* Python's s.find(sub), 1-based; 0 when sub does not occur
Find(s, sub) ==
    IF Contains(s, sub)
    THEN CHOOSE i \in 1..(Len(s) + 1) :
            /\ StartsAt(s, sub, i)
            /\ \A j \in 1..(i - 1) : ~StartsAt(s, sub, j)
    ELSE 0

\* Python's s.split(sep) for a non-empty sep: the pieces between the
\* non-overlapping occurrences of sep, scanning from the left
RECURSIVE Split(_, _)
Split(s, sep) ==
    LET i == Find(s, sep)
    IN  IF i = 0
        THEN <<s>>
        ELSE <<SubSeq(s, 1, i - 1)>> \o Split(SubSeq(s, i + Len(sep), Len(s)), sep)

-----------------------------------------------------------------------------
(* normalize_sheets_url *)

EXPORT_MARK == <<"/", "export?format=csv">>
SHEETS_MARK == <<"docs.google.com", "/", "spreadsheets", "/", "d", "/">>
GID_MARK    == <<"#gid=">>
HTTPS       == <<"https:", "/", "/">>

\* a mutant of normalize_sheets_url: the export-link test is dropped, so an
\* export link is rewritten again
normalize_sheets_url_noexportcheck(link) ==
    IF Contains(link, SHEETS_MARK)
    THEN LET parts == IF Contains(link, GID_MARK)
                      THEN Split(link, GID_MARK)
                      ELSE <<link, <<"0">>>>
         IN  IF Len(parts) # 2
             THEN link
             ELSE LET ds == Split(parts[1], <<"/", "d", "/">>)
                  IN  IF Len(ds) < 2
                      THEN link
                      ELSE HTTPS \o SHEETS_MARK \o Split(ds[2], <<"/">>)[1]
                             \o EXPORT_MARK \o <<"&gid=">> \o parts[2]
    ELSE link

\* lines 139-151.  The try block fails, and the link is returned as it came,
\* when the link holds "#gid=" more than once (the two-name unpacking of the
\* split) or when nothing follows a "/d/" in the part before "#gid=" (index 1
\* of the split on "/d/").
normalize_sheets_url(link) ==
    IF Contains(link, EXPORT_MARK)
    THEN link
    ELSE IF Contains(link, SHEETS_MARK)
    THEN LET parts == IF Contains(link, GID_MARK)
                      THEN Split(link, GID_MARK)
                      ELSE <<link, <<"0">>>>
         IN  IF Len(parts) # 2
             THEN link
             ELSE LET root == parts[1]
                      gid  == parts[2]
                      ds   == Split(root, <<"/", "d", "/">>)
                  IN  IF Len(ds) < 2
                      THEN link
                      ELSE LET sid == Split(ds[2], <<"/">>)[1]
                           IN  HTTPS \o SHEETS_MARK \o sid
                                 \o EXPORT_MARK \o <<"&gid=">> \o gid
    ELSE link

\* the pieces the links of the model are made of
MaxParts == 4
LinkParts ==
    { HTTPS \o SHEETS_MARK,
      <<"ABC123">>,
      <<"/", "edit">>,
      <<"/", "edit">> \o GID_MARK,
      <<"42">>,
      EXPORT_MARK,
      <<"/", "d", "/">>,
      <<"https:", "/", "/", "example.com", "/", "data.csv">> }

RECURSIVE Concat(_)
Concat(ps) == IF ps = <<>> THEN <<>> ELSE Head(ps) \o Concat(Tail(ps))

Links == { Concat(ps) : ps \in UNION { [1..n -> LinkParts] : n \in 0..MaxParts } }

CallNormalize ==
    /\ call.fn = "none"
    /\ \E link \in Links :
         call' = [fn |-> "normalize_sheets_url", link |-> link,
                  out |-> normalize_sheets_url(link)]
    /\ UNCHANGED notCall

-----------------------------------------------------------------------------
(* JSON values and Python's dict/None idioms *)

Null      == [t |-> "null"]
Str(s)    == [t |-> "str",  v |-> s]      \* s: a text (sequence of tokens)
Num(n)    == [t |-> "num",  v |-> n]
List(xs)  == [t |-> "list", v |-> xs]
Dict(f)   == [t |-> "dict", v |-> f]      \* f: a function on the keys present
EmptyDict == Dict(<<>>)
\* the outcome of an expression that raised
Raised    == [t |-> "raise"]

\* Python truth of a value (`if not dt`, `x or {}`)
Truthy(x) ==
    CASE x.t = "null" -> FALSE
      [] x.t = "str"  -> x.v # <<>>
      [] x.t = "num"  -> x.v # 0
      [] x.t = "list" -> x.v # <<>>
      [] x.t = "dict" -> DOMAIN x.v # {}
      [] OTHER        -> FALSE

\* x.get(k, default): AttributeError unless x is a dict
GetOr(x, k, default) ==
    IF x.t = "dict"
    THEN IF k \in DOMAIN x.v THEN x.v[k] ELSE default
    ELSE Raised

\* x.get(k)
Get(x, k) == GetOr(x, k, Null)

\* (x or {})
OrEmpty(x) == IF x.t = "raise" THEN Raised ELSE IF Truthy(x) THEN x ELSE EmptyDict

-----------------------------------------------------------------------------
(* Upstream: what the server (or the network) answers to one GET *)

TransportError == [kind |-> "transport_error"]
\* body: a JSON value, or Unparseable (r.json() raises on it)
Unparseable == [t |-> "unparseable"]
Response(status, body, us) ==
    [kind |-> "response", status |-> status, body |-> body, elapsed_us |-> us]

IsError(resp) ==
    \/ resp.kind = "transport_error"
    \/ (400 <= resp.status /\ resp.status < 600)
    \/ resp.body = Unparseable

\* round(seconds, 3): microseconds to the nearest millisecond (the inputs of
\* the model hold no exact half millisecond)
Round3(us) == (us + 500) \div 1000

API_HOST == <<"api.github.com">>

\* the host requests.get connects to: what stands between "//" and the next
\* "/"; none for a text that is no URL
Host(url) ==
    IF Len(url) >= 4 /\ url[2] = "/" /\ url[3] = "/" THEN <<url[4]>> ELSE <<>>

\* the configurations of the model: no token or one; the default zone
\* (America/Los_Angeles in winter), UTC and a zone east of it
Tokens == {"", "ghp_token"}
Zones  == {-8, 0, 9}

\* a mutant of AuthHeader: the URL is compared with the host instead of
\* searched for it
AuthHeader_exact(url) == GITHUB_TOKEN # "" /\ url = HTTPS \o API_HOST

\* lines 44-45: whether http_json puts Authorization: Bearer on the request
AuthHeader(url) == GITHUB_TOKEN # "" /\ Contains(url, API_HOST)

\* lines 40-48.  requests.get raises on a transport failure, raise_for_status
\* on a status in [400,600), r.json() on a body that is not JSON.
http_json(url, resp) ==
    LET request == [url |-> url, auth |-> AuthHeader(url), via |-> "http_json"]
    IN  IF IsError(resp)
        THEN [raised |-> TRUE, request |-> request]
        ELSE [raised |-> FALSE, request |-> request,
              json |-> resp.body, latency |-> resp.elapsed_us]

RepoUrl(owner, repo) ==
    HTTPS \o API_HOST \o <<"/", "repos", "/">> \o owner \o <<"/">> \o repo

-----------------------------------------------------------------------------
(* ping_url *)

\* a mutant of ResponseOk: every status below 500 counts as reachable
ResponseOk_below500(status) == status < 500

\* line 121, r.ok: raise_for_status() does not raise, which it does for a
\* status in [400,600)
ResponseOk(status) == ~(400 <= status /\ status < 600)

\* lines 115-126; the request carries no headers of the program's
ping_request(url) == [url |-> url, auth |-> FALSE, via |-> "ping_url"]

ping_url(url, resp) ==
    IF resp.kind = "transport_error"
    THEN [status_code |-> Null, ok |-> FALSE, latency_s |-> Null, url |-> url,
          error |-> Str(<<"ConnectionError">>)]
    ELSE [status_code |-> Num(resp.status), ok |-> ResponseOk(resp.status),
          latency_s |-> Num(Round3(resp.elapsed_us)), url |-> url]

\* d.get(k) on a result dict
Field(d, k) == IF k \in DOMAIN d THEN d[k] ELSE Null

\* a server may answer with any three-digit status; requests hands it on
Statuses == {199, 200, 204, 304, 399, 400, 404, 500, 599, 600, 999}
Elapsed  == {120, 250499}
PingUrls ==
    { HTTPS \o <<"gainsignalboardstarter.streamlit.app", "/">>,
      HTTPS \o API_HOST \o <<"/">>,
      <<"http:", "/", "/", "example.com", "/", "api.github.com">>,
      <<"not a url">> }
\* a text without a host never gets a response: requests.get raises on it
PingResps(url) ==
    {TransportError} \cup
        (IF Host(url) = <<>> THEN {}
         ELSE { Response(s, Str(<<"html">>), e) : s \in Statuses, e \in Elapsed })

CallPing ==
    /\ call.fn = "none"
    /\ \E url \in PingUrls : \E resp \in PingResps(url) :
         call' = [fn |-> "ping_url", url |-> url, resp |-> resp,
                  out |-> ping_url(url, resp)]
    /\ UNCHANGED notCall

-----------------------------------------------------------------------------
(* fetch_repo_extended *)

\* int(x) of line 82, for the values total_count takes in the model: a number
\* as Num, Raised for a TypeError or ValueError
IntOf(x) ==
    CASE x.t = "num" -> x
      [] x.t = "str" /\ x.v = <<"7">> -> Num(7)
      [] OTHER -> Raised

\* a mutant of safe_count: a mapping counts as its number of keys
safe_count_keys(url, resp) ==
    LET r == http_json(url, resp)
    IN  IF r.raised THEN 0
        ELSE IF r.json.t = "list" THEN Len(r.json.v)
        ELSE IF r.json.t = "dict" THEN Cardinality(DOMAIN r.json.v)
        ELSE 0

\* lines 76-84, _safe_count: any exception (of http_json, of .get on a body
\* that is no mapping, of int()) is caught and counted 0
safe_count(url, resp) ==
    LET r == http_json(url, resp)
    IN  IF r.raised THEN 0
        ELSE IF r.json.t = "list" THEN Len(r.json.v)
        ELSE LET n == GetOr(r.json, "total_count", Num(0))
             IN  IF n.t = "raise" \/ IntOf(n).t = "raise" THEN 0 ELSE IntOf(n).v

Counters == <<"contributors", "branches", "releases", "tags", "pulls_open">>
CounterSet == {Counters[i] : i \in 1..Len(Counters)}

CounterUrl(owner, repo, c) ==
    RepoUrl(owner, repo) \o <<"/">> \o
        <<IF c = "pulls_open" THEN "pulls" ELSE c>>

\* lines 86-93: the five counters, each from its own request
fetch_repo_extended(owner, repo, resps) ==
    [c \in CounterSet |-> safe_count(CounterUrl(owner, repo, c), resps[c])]

\* the non-empty lists of the model hold MaxItems items
MaxItems == 2
ListOf(n) == List([i \in 1..n |-> Dict([name |-> Str(<<"x">>)])])
CountBodies ==
    { ListOf(n) : n \in {0, MaxItems} }
      \cup { Dict([total_count |-> Num(7), items |-> List(<<>>)]),
             Dict([message |-> Str(<<"ok">>)]),
             Dict([total_count |-> Null]),
             Null }
CountResps ==
    {TransportError, Response(403, Dict([message |-> Str(<<"rate limit">>)]), 120),
     Response(200, Unparseable, 120)}
      \cup { Response(200, b, 120) : b \in CountBodies }

\* lines 17-18: the default owner and repository
DEFAULT_OWNER == <<"Rusty92109">>
DEFAULT_REPO  == <<"GAIN_SignalBoard_starter">>

CallExtended ==
    /\ call.fn = "none"
    /\ \E resps \in [CounterSet -> CountResps] :
         call' = [fn |-> "fetch_repo_extended", resps |-> resps,
                  out |-> fetch_repo_extended(DEFAULT_OWNER, DEFAULT_REPO, resps)]
    /\ UNCHANGED notCall

-----------------------------------------------------------------------------
(* fetch_commit_history *)

\* line 103: ((c.get("commit") or {}).get("author") or {}).get("date")
AuthorDate(c) == Get(OrEmpty(Get(OrEmpty(Get(c, "commit")), "author")), "date")

\* pd.to_datetime of an author date "<day>T<hour>:00:00Z", held as the text
\* <<day, hour>>: the instant, in hours since day 0, 00:00 UTC
to_datetime(dt) == dt.v[1] * 24 + dt.v[2]

\* a mutant of LocalDate: the date is taken in UTC, the zone is ignored
LocalDate_utc(instant) == instant \div 24

\* lines 110-111: the calendar date (a day number) of an instant in the
\* display time zone
LocalDate(instant) == (instant + TZ) \div 24

\* the elements of a finite set of integers in ascending order
RECURSIVE Ascending(_)
Ascending(S) ==
    IF S = {} THEN <<>>
    ELSE LET m == CHOOSE x \in S : \A y \in S : x <= y
         IN  <<m>> \o Ascending(S \ {m})

\* line 112: df.groupby("date").size().reset_index(name="commits"): one row
\* per key, the keys ascending
GroupBySize(dates) ==
    LET keys == Ascending({ dates[i] : i \in 1..Len(dates) })
    IN  [k \in 1..Len(keys) |->
            [date |-> keys[k],
             commits |-> Cardinality({ i \in 1..Len(dates) : dates[i] = keys[k] })]]

\* lines 95-113.  A body that is no list is iterated all the same: nothing to
\* iterate in an empty mapping, an exception otherwise.
fetch_commit_history(owner, repo, resp) ==
    LET r == http_json(RepoUrl(owner, repo) \o <<"/", "commits">>, resp)
    IN  IF r.raised THEN [raised |-> TRUE, requests |-> <<r.request>>]
        ELSE IF r.json.t # "list"
        THEN IF r.json = EmptyDict
             THEN [raised |-> FALSE, requests |-> <<r.request>>, daily |-> <<>>]
             ELSE [raised |-> TRUE, requests |-> <<r.request>>]
        ELSE IF \E i \in 1..Len(r.json.v) : AuthorDate(r.json.v[i]).t = "raise"
        THEN [raised |-> TRUE, requests |-> <<r.request>>]
        ELSE LET kept  == SelectSeq(r.json.v, LAMBDA c : Truthy(AuthorDate(c)))
                 dates == [i \in 1..Len(kept) |->
                              LocalDate(to_datetime(AuthorDate(kept[i])))]
             IN  [raised |-> FALSE, requests |-> <<r.request>>,
                  daily |-> IF kept = <<>> THEN <<>> ELSE GroupBySize(dates)]

\* the commits of the model
Author(d)   == Dict([name |-> Str(<<"Rusty">>), date |-> d])
Commit(c)   == Dict([sha |-> Str(<<"abc123">>), commit |-> c])
DatedCommit(day, hour) ==
    Commit(Dict([message |-> Str(<<"fix">>), author |-> Author(Str(<<day, hour>>))]))
CommitTimes == {<<0, 1>>, <<0, 10>>, <<0, 22>>, <<1, 1>>}
UndatedCommits ==
    { Commit(Null),
      Commit(Dict([message |-> Str(<<"fix">>), author |-> Null])),
      Commit(Dict([message |-> Str(<<"fix">>), author |-> Author(Str(<<>>))])) }
DatedCommits == { DatedCommit(t[1], t[2]) : t \in CommitTimes }
MaxCommits == 3
CommitLists ==
    UNION { [1..n -> DatedCommits \cup UndatedCommits] : n \in 0..MaxCommits }

CallHistory ==
    /\ call.fn = "none"
    /\ \E resp \in {TransportError, Response(403, EmptyDict, 120)}
                   \cup { Response(200, List(cs), 120) : cs \in CommitLists } :
         call' = [fn |-> "fetch_commit_history", resp |-> resp,
                  out |-> fetch_commit_history(DEFAULT_OWNER, DEFAULT_REPO, resp)]
    /\ UNCHANGED notCall

-----------------------------------------------------------------------------
(* fetch_repo_stats *)

\* lines 55-70: the record built from the repository body and the latest
\* commit; a field whose expression raises is Raised
StatsRecord(data, commit, latency) ==
    [repo_full_name        |-> Get(data, "full_name"),
     default_branch        |-> Get(data, "default_branch"),
     stars                 |-> Get(data, "stargazers_count"),
     forks                 |-> Get(data, "forks_count"),
     watchers              |-> Get(data, "subscribers_count"),
     open_issues           |-> Get(data, "open_issues_count"),
     license               |-> Get(OrEmpty(Get(data, "license")), "spdx_id"),
     repo_api_latency_s    |-> Num(Round3(latency)),
     latest_commit_sha     |-> Get(commit, "sha"),
     latest_commit_message |-> Get(OrEmpty(Get(commit, "commit")), "message"),
     latest_commit_author  |->
         Get(OrEmpty(Get(OrEmpty(Get(commit, "commit")), "author")), "name"),
     \* line 67: .get("author", {}) gives None for an author that is null,
     \* and .get("date") on it raises
     latest_commit_datetime |->
         Get(GetOr(OrEmpty(Get(commit, "commit")), "author", EmptyDict), "date"),
     repo_html_url         |-> Get(data, "html_url"),
     repo_size_kb          |-> Get(data, "size")]

\* lines 50-71.  Neither http_json call is guarded: an error of the
\* repository call or of the commits call leaves the function.
fetch_repo_stats(owner, repo, repoResp, commitsResp) ==
    LET r1 == http_json(RepoUrl(owner, repo), repoResp)
        r2 == http_json(RepoUrl(owner, repo) \o <<"/", "commits">>, commitsResp)
    IN  IF r1.raised THEN [raised |-> TRUE, requests |-> <<r1.request>>]
        ELSE IF r2.raised THEN [raised |-> TRUE, requests |-> <<r1.request, r2.request>>]
        ELSE LET commit == IF r2.json.t = "list" /\ r2.json.v # <<>>
                           THEN r2.json.v[1] ELSE EmptyDict
                 stats  == StatsRecord(r1.json, commit, r1.latency)
             IN  IF \E f \in DOMAIN stats : stats[f].t = "raise"
                 THEN [raised |-> TRUE, requests |-> <<r1.request, r2.request>>]
                 ELSE [raised |-> FALSE, requests |-> <<r1.request, r2.request>>,
                       stats |-> stats]

\* the repository bodies of the model
FullRepo ==
    Dict([full_name |-> Str(<<"Rusty92109", "/", "GAIN_SignalBoard_starter">>),
          default_branch |-> Str(<<"main">>),
          stargazers_count |-> Num(3), forks_count |-> Num(1),
          subscribers_count |-> Num(2), open_issues_count |-> Num(0),
          license |-> Dict([spdx_id |-> Str(<<"MIT">>)]),
          html_url |-> Str(<<"https:", "/", "/", "github.com", "/", "Rusty92109">>),
          size |-> Num(12)])
RepoBodies ==
    { FullRepo,
      Dict([full_name |-> Str(<<"Rusty92109">>), license |-> Null, size |-> Null]),
      EmptyDict }
RepoResps ==
    {TransportError, Response(404, Dict([message |-> Str(<<"Not Found">>)]), 120)}
      \cup { Response(200, b, 250499) : b \in RepoBodies }

\* the answers of the commits endpoint asked for the latest commit; 409 is
\* GitHub's answer for a repository without commits
LatestCommits ==
    DatedCommits \cup UndatedCommits
      \cup { Dict(<<>>),
             Commit(Dict([message |-> Str(<<"fix">>)])),
             Commit(Dict([author |-> Dict([name |-> Str(<<"Rusty">>)])])) }
LatestCommitResps ==
    {TransportError,
     Response(409, Dict([message |-> Str(<<"Git Repository is empty.">>)]), 120),
     Response(200, Unparseable, 120),
     Response(200, List(<<>>), 120)}
      \cup { Response(200, List(<<c>>), 120) : c \in LatestCommits }

CallStats ==
    /\ call.fn = "none"
    /\ \E repoResp \in RepoResps, commitsResp \in LatestCommitResps :
         call' = [fn |-> "fetch_repo_stats", repoResp |-> repoResp,
                  commitsResp |-> commitsResp,
                  out |-> fetch_repo_stats(DEFAULT_OWNER, DEFAULT_REPO,
                                           repoResp, commitsResp)]
    /\ UNCHANGED notCall

-----------------------------------------------------------------------------
(* CSV loaders *)

\* what pd.read_csv makes of a source: rows, a header without rows, or an
\* exception (no columns to parse, a tokenizing error, an HTTP error)
CsvContents == {"rows", "norows", "bad"}

\* lines 129-137: one GET without headers of the program's; a failure is
\* caught, warned about and turned into an empty frame
read_csv_request(url) == [url |-> url, auth |-> FALSE, via |-> "read_csv_url"]

read_csv_url(url, content) ==
    IF content = "bad"
    THEN [df |-> "empty", shown |-> <<"warning: could not read CSV from URL">>]
    ELSE [df |-> IF content = "rows" THEN "rows" ELSE "empty", shown |-> <<>>]

OfflineNames == <<"latest_metrics.csv", "data/latest_metrics.csv">>

\* lines 210-218: the first file that exists and parses; a file that exists
\* and does not parse is warned about and the next one is tried
RECURSIVE load_offline_from(_, _)
load_offline_from(i, disk) ==
    IF i > Len(OfflineNames)
    THEN [df |-> "empty", shown |-> <<>>]
    ELSE LET f == disk[OfflineNames[i]]
         IN  IF f = "absent" THEN load_offline_from(i + 1, disk)
             ELSE IF f = "bad"
             THEN LET rest == load_offline_from(i + 1, disk)
                  IN  [df |-> rest.df,
                       shown |-> <<"warning: found file but could not read it">>
                                   \o rest.shown]
             ELSE [df |-> IF f = "rows" THEN "rows" ELSE "empty", shown |-> <<>>]

load_offline_csv(disk) == load_offline_from(1, disk)

\* lines 220-241, called with the frame parsed from the upload ("none"
\* without an upload) and the content behind the CSV URL
render_external_data(url_csv, uploaded_df, disk, content) ==
    LET tab0 ==
            IF url_csv = <<>>
            THEN [shown |-> <<"info: provide a link">>, requests |-> {}, df |-> "unused"]
            ELSE LET csv_url == normalize_sheets_url(url_csv)
                     r == read_csv_url(csv_url, content)
                 IN  [shown |-> <<"caption: source">> \o r.shown \o
                                  (IF r.df = "empty"
                                   THEN <<"warning: no rows returned">>
                                   ELSE <<"external data table">>),
                      requests |-> {read_csv_request(csv_url)},
                      df |-> r.df]
        off == load_offline_csv(disk)
        tab1 ==
            IF uploaded_df # "none"
            THEN [shown |-> IF uploaded_df = "empty"
                            THEN <<"info: upload a CSV">>
                            ELSE <<"local data table">>]
            ELSE [shown |-> off.shown \o (IF off.df = "empty"
                                          THEN <<"info: upload a CSV">>
                                          ELSE <<"local data table">>)]
    IN  [shown |-> <<"tabs">> \o tab0.shown \o tab1.shown,
         requests |-> tab0.requests,
         url_df |-> tab0.df,
         local_df |-> IF uploaded_df # "none" THEN "unused" ELSE off.df]

-----------------------------------------------------------------------------
(* The render cycle: the script runs top to bottom on every interaction.
   Every cached fetcher is taken to miss, so that each call reaches the
   network; the cache itself is modelled apart. *)

\* what the user may have typed into the sidebar
OwnerInputs  == {DEFAULT_OWNER, API_HOST}
AppUrlInputs ==
    { HTTPS \o <<"gainsignalboardstarter.streamlit.app", "/">>,
      HTTPS \o API_HOST \o <<"/">>,
      <<"http:", "/", "/", "example.com", "/", "api.github.com">> }
CsvUrlInputs ==
    { <<>>,
      HTTPS \o SHEETS_MARK \o <<"ABC123", "/", "edit", "#gid=", "42">>,
      HTTPS \o API_HOST \o <<"/", "data.csv">> }

\* lines 246-258: the sidebar widgets return the user's current inputs
Sidebar ==
    /\ pc = "sidebar"
    /\ live_mode' \in BOOLEAN
    /\ GITHUB_OWNER' \in OwnerInputs
    /\ GITHUB_REPO' = DEFAULT_REPO
    /\ STREAMLIT_APP_URL' \in AppUrlInputs
    /\ SHEETS_CSV_URL' \in CsvUrlInputs
    /\ uploaded' \in {"none"} \cup CsvContents
    /\ page' = <<"sidebar", "header">>
    /\ requests' = {}
    /\ failed' = {}
    /\ loaded' = [url |-> "unused", local |-> "unused", upload |-> "unused"]
    /\ pc' = IF live_mode' THEN "live" ELSE "offline"
    /\ UNCHANGED <<cfgVars, call, cacheVars, files>>

SeqToSet(s) == { s[i] : i \in 1..Len(s) }

\* lines 264-276: the try block and its handler.  The cards and the table
\* are on the page before the commit history is fetched, and what is on the
\* page stays there when the handler adds its error message.
LiveSection(stats, extra, ping, daily) ==
    IF stats.raised
    THEN [shown |-> <<"error: live mode failed">>,
          requests |-> SeqToSet(stats.requests),
          failed |-> {"fetch_repo_stats"}]
    ELSE LET before == <<"status cards", "repository snapshot table">>
             reqs   == SeqToSet(stats.requests) \cup extra.requests
                         \cup {ping.request} \cup SeqToSet(daily.requests)
         IN  IF daily.raised
             THEN [shown |-> before \o <<"error: live mode failed">>,
                   requests |-> reqs,
                   failed |-> {"fetch_commit_history"}]
             ELSE [shown |-> before \o
                               <<IF daily.daily = <<>> THEN "info: no commit history"
                                                       ELSE "commits chart">>,
                   requests |-> reqs,
                   failed |-> {}]

\* the answers of the network during a live section
LiveRepoResps    == {Response(404, EmptyDict, 120), Response(200, FullRepo, 250499)}
LiveCommitResps  ==
    {Response(409, EmptyDict, 120), Response(200, List(<<>>), 120),
     Response(200, List(<<DatedCommit(0, 10)>>), 120)}
LiveCountResps   ==
    { [c \in CounterSet |-> IF c \in F THEN Response(403, EmptyDict, 120)
                                       ELSE Response(200, ListOf(MaxItems), 120)] :
        F \in {{}, {"contributors"}, CounterSet} }
LivePingResps    == {TransportError, Response(200, Str(<<"html">>), 120)}
LiveHistoryResps ==
    {TransportError, Response(200, List(<<>>), 120),
     Response(200, List(<<DatedCommit(0, 10), DatedCommit(0, 22)>>), 120)}

LiveBlock ==
    /\ pc = "live"
    /\ \E repoResp \in LiveRepoResps, commitsResp \in LiveCommitResps,
          countResps \in LiveCountResps,
          pingResp \in LivePingResps, histResp \in LiveHistoryResps :
         LET stats == fetch_repo_stats(GITHUB_OWNER, GITHUB_REPO, repoResp, commitsResp)
             extra == [counts |-> fetch_repo_extended(GITHUB_OWNER, GITHUB_REPO, countResps),
                       requests |->
                           { http_json(CounterUrl(GITHUB_OWNER, GITHUB_REPO, c),
                                       countResps[c]).request : c \in CounterSet }]
             ping  == [result |-> ping_url(STREAMLIT_APP_URL, pingResp),
                       request |-> ping_request(STREAMLIT_APP_URL)]
             daily == fetch_commit_history(GITHUB_OWNER, GITHUB_REPO, histResp)
             live  == LiveSection(stats, extra, ping, daily)
         IN  /\ page' = page \o live.shown
             /\ requests' = requests \cup live.requests
             /\ failed' = live.failed
    /\ pc' = "external"
    /\ UNCHANGED <<cfgVars, call, cacheVars, live_mode, GITHUB_OWNER, GITHUB_REPO,
                   STREAMLIT_APP_URL, SHEETS_CSV_URL, uploaded, files, loaded>>

\* lines 277-280
OfflineBlock ==
    /\ pc = "offline"
    /\ LET off == load_offline_csv(files)
       IN  page' = page \o off.shown \o
                     (IF off.df = "empty" THEN <<"info: offline mode">> ELSE <<>>)
    /\ pc' = "external"
    /\ UNCHANGED <<cfgVars, call, cacheVars, live_mode, GITHUB_OWNER, GITHUB_REPO,
                   STREAMLIT_APP_URL, SHEETS_CSV_URL, uploaded, files, requests,
                   failed, loaded>>

\* lines 282-284.  The argument pd.read_csv(uploaded) is evaluated, outside
\* any try, before render_external_data is entered: an upload that does not
\* parse ends the script there.
ExternalData ==
    /\ pc = "external"
    /\ IF uploaded = "bad"
       THEN /\ pc' = "crashed"
            /\ page' = page \o <<"data sources">>
            /\ loaded' = [loaded EXCEPT !.upload = "failed"]
            /\ UNCHANGED requests
       ELSE \E content \in CsvContents :
              LET uploaded_df == CASE uploaded = "none"   -> "none"
                                   [] uploaded = "rows"   -> "rows"
                                   [] uploaded = "norows" -> "empty"
                  ext == render_external_data(SHEETS_CSV_URL, uploaded_df, files, content)
              IN  /\ page' = page \o <<"data sources">> \o ext.shown
                  /\ requests' = requests \cup ext.requests
                  /\ loaded' = [url    |-> IF ext.url_df = "unused" THEN "unused"
                                           ELSE IF content = "bad" THEN "failed"
                                           ELSE ext.url_df,
                                local  |-> IF ext.local_df = "unused" THEN "unused"
                                           ELSE IF \E i \in 1..Len(OfflineNames) :
                                                     /\ files[OfflineNames[i]] = "bad"
                                                     /\ \A j \in 1..(i - 1) :
                                                          files[OfflineNames[j]]
                                                            \in {"absent", "bad"}
                                           THEN "failed"
                                           ELSE ext.local_df,
                                upload |-> IF uploaded_df = "none" THEN "unused"
                                           ELSE uploaded_df]
                  /\ pc' = "footer"
    /\ UNCHANGED <<cfgVars, call, cacheVars, live_mode, GITHUB_OWNER, GITHUB_REPO,
                   STREAMLIT_APP_URL, SHEETS_CSV_URL, uploaded, files, failed>>

\* lines 286-287
Footer ==
    /\ pc = "footer"
    /\ page' = page \o <<"caption: last refreshed">>
    /\ pc' = "done"
    /\ UNCHANGED <<cfgVars, call, cacheVars, live_mode, GITHUB_OWNER, GITHUB_REPO,
                   STREAMLIT_APP_URL, SHEETS_CSV_URL, uploaded, files, requests,
                   failed, loaded>>

\* the next interaction runs the script again from the top, on a page
\* cleared of the elements of the last run
Rerun ==
    /\ pc \in {"done", "crashed"}
    /\ pc' = "sidebar"
    /\ page' = <<>>
    /\ requests' = {}
    /\ failed' = {}
    /\ loaded' = [url |-> "unused", local |-> "unused", upload |-> "unused"]
    /\ UNCHANGED <<cfgVars, call, cacheVars, live_mode, GITHUB_OWNER, GITHUB_REPO,
                   STREAMLIT_APP_URL, SHEETS_CSV_URL, uploaded, files>>

FileStates == {"absent", "rows", "bad"}

RenderIdle ==
    /\ pc = "idle"
    /\ live_mode = TRUE
    /\ GITHUB_OWNER = DEFAULT_OWNER
    /\ GITHUB_REPO = DEFAULT_REPO
    /\ STREAMLIT_APP_URL = HTTPS \o <<"gainsignalboardstarter.streamlit.app", "/">>
    /\ SHEETS_CSV_URL = <<>>
    /\ uploaded = "none"
    /\ files = [n \in SeqToSet(OfflineNames) |-> "absent"]
    /\ page = <<>>
    /\ requests = {}
    /\ failed = {}
    /\ loaded = [url |-> "unused", local |-> "unused", upload |-> "unused"]


-----------------------------------------------------------------------------
(* st.cache_data(ttl=60), lines 50, 73, 95, 115, 129: a call whose key
   (function, arguments) has an entry younger than the TTL returns the entry's
   value and does not run the function; any other call runs it and, when it
   returns, stores what it returned with the time; when it raises, the
   exception leaves the wrapper and nothing is stored. *)

TTL == 60

Fetchers == {"fetch_repo_stats", "fetch_repo_extended", "fetch_commit_history",
             "ping_url", "read_csv_url"}

\* fetch_repo_stats and fetch_commit_history let the exceptions of http_json
\* out (lines 52-53, 97); the other three catch every exception (lines 83,
\* 125, 135)
CanRaise(f) == f \in {"fetch_repo_stats", "fetch_commit_history"}

\* the argument tuples of the model: two per fetcher
Keys == Fetchers \X {"args", "other args"}

NoEntry == [present |-> FALSE]
Entry(t, v) == [present |-> TRUE, stored_at |-> t, value |-> v]
NoCall == [made |-> FALSE]

\* a mutant of Fresh: an entry is served up to and including its 60th second
Fresh_inclusive(e, t) == e.present /\ t - e.stored_at <= TTL

\* an entry is served while it is younger than the TTL
Fresh(e, t) == e.present /\ t - e.stored_at < TTL

\* the calls and the clock of the model are bounded
MaxCalls == 3
MaxTime  == 60
Steps    == {30, 59}

\* the value the upstream holds at time t: it changes with every tick
Upstream(t) == t

\* one call of a cached fetcher
CachedCall ==
    /\ \E k \in Keys, raises \in BOOLEAN :
         LET e == cache[k]
             c == IF Fresh(e, now)
                  THEN [made |-> TRUE, key |-> k, t |-> now, invoked |-> FALSE,
                        raised |-> FALSE, value |-> e.value]
                  ELSE IF raises
                  THEN [made |-> TRUE, key |-> k, t |-> now, invoked |-> TRUE,
                        raised |-> TRUE, value |-> -1]
                  ELSE [made |-> TRUE, key |-> k, t |-> now, invoked |-> TRUE,
                        raised |-> FALSE, value |-> Upstream(now)]
         IN  /\ raises => CanRaise(k[1]) /\ ~Fresh(e, now)
             /\ ncalls < MaxCalls
             /\ ncalls' = ncalls + 1
             /\ cache' = IF c.invoked /\ ~c.raised
                         THEN [cache EXCEPT ![k] = Entry(now, c.value)]
                         ELSE cache
             /\ lastcall' = [lastcall EXCEPT ![k] = c]
             /\ last' = [call |-> c, before |-> e, prev |-> lastcall[k]]
    /\ UNCHANGED <<cfgVars, call, renderVars, now>>

\* time passes
Tick ==
    /\ \E d \in Steps :
         /\ now + d <= MaxTime
         /\ now' = now + d
    /\ UNCHANGED <<cfgVars, call, renderVars, cache, lastcall, last, ncalls>>

\* the cache out of play
CacheIdle ==
    /\ now = 0
    /\ cache = <<>>
    /\ lastcall = <<>>
    /\ last = [call |-> NoCall, before |-> NoEntry, prev |-> NoCall]
    /\ ncalls = 0

\* the process has just started: the clock at 0 and nothing stored
InitCache ==
    /\ GITHUB_TOKEN \in Tokens
    /\ TZ = -8
    /\ call = [fn |-> "none"]
    /\ RenderIdle
    /\ now = 0
    /\ cache = [k \in Keys |-> NoEntry]
    /\ lastcall = [k \in Keys |-> NoCall]
    /\ last = [call |-> NoCall, before |-> NoEntry, prev |-> NoCall]
    /\ ncalls = 0

NextCache == CachedCall \/ Tick

SpecCache == InitCache /\ [][NextCache]_vars

-----------------------------------------------------------------------------
(* The page *)

\* the state after the module-level configuration (lines 12-23), before the
\* first run of the script: the defaults of the widgets are the configured
\* values
Init ==
    /\ GITHUB_TOKEN \in Tokens
    /\ TZ = -8
    /\ call = [fn |-> "none"]
    /\ pc = "sidebar"
    /\ live_mode = TRUE
    /\ GITHUB_OWNER = DEFAULT_OWNER
    /\ GITHUB_REPO = DEFAULT_REPO
    /\ STREAMLIT_APP_URL = HTTPS \o <<"gainsignalboardstarter.streamlit.app", "/">>
    /\ SHEETS_CSV_URL = <<>>
    /\ uploaded = "none"
    /\ files \in [SeqToSet(OfflineNames) -> FileStates]
    /\ page = <<>>
    /\ requests = {}
    /\ failed = {}
    /\ loaded = [url |-> "unused", local |-> "unused", upload |-> "unused"]
    /\ CacheIdle

Next == Sidebar \/ LiveBlock \/ OfflineBlock \/ ExternalData \/ Footer \/ Rerun

Spec == Init /\ [][Next]_vars

-----------------------------------------------------------------------------
(* The helpers and fetchers one call at a time *)

InitFn ==
    /\ GITHUB_TOKEN \in Tokens
    /\ TZ \in Zones
    /\ call = [fn |-> "none"]
    /\ RenderIdle
    /\ CacheIdle

NextFn == CallNormalize \/ CallPing \/ CallExtended \/ CallHistory \/ CallStats

SpecFn == InitFn /\ [][NextFn]_vars

-----------------------------------------------------------------------------
(* C1 *)

CallMade == last.call.made

\* C1, as claimed: of two successive calls with the same arguments less than
\* 60 seconds apart the second does not run the fetch and returns what the
\* first returned; a call 60 seconds or more after the value was stored runs
\* the fetch.
CachedOncePer60sBetweenCalls ==
    CallMade =>
        /\ (last.prev.made /\ last.call.t - last.prev.t < 60) =>
              /\ ~last.call.invoked
              /\ ~last.prev.raised
              /\ last.call.value = last.prev.value
        /\ (last.before.present /\ last.call.t - last.before.stored_at >= 60) =>
              last.call.invoked

\* C1, amended: a call made less than 60 seconds after a value was stored for
\* its arguments does not run the fetch and returns the stored value; a call
\* with no value stored, or 60 seconds or more after it was stored, runs the
\* fetch; a value is stored, with the time, when the fetch returns, and
\* nothing is stored when it raises.
CachedWithin60sOfStorage ==
    CallMade =>
        LET c == last.call
            e == last.before
        IN  /\ (e.present /\ c.t - e.stored_at < 60) =>
                  /\ ~c.invoked
                  /\ ~c.raised
                  /\ c.value = e.value
            /\ (~e.present \/ c.t - e.stored_at >= 60) => c.invoked
            /\ (c.invoked /\ ~c.raised) =>
                  cache[c.key] = [present |-> TRUE, stored_at |-> c.t, value |-> c.value]
            /\ (~c.invoked \/ c.raised) => cache[c.key] = e
            /\ \A k \in Keys \ {c.key} : cache[k].present => cache[k].stored_at <= c.t

\* a value stored at 0 is served at 59 and fetched again at 60, although the
\* call before was 30 seconds earlier
CachedWitness ==
    /\ CallMade
    /\ last.before.present
    /\ last.before.stored_at = 0
    /\ last.call.t = 60
    /\ last.call.invoked
    /\ last.prev.made
    /\ last.prev.t = 30
    /\ ~last.prev.invoked

-----------------------------------------------------------------------------
(* C2 *)

TokenConfigured == GITHUB_TOKEN # ""

\* C2, as claimed: a request carries the Authorization header only when a
\* token is configured and its host is the API host; the requests of ping_url
\* and read_csv_url never carry it; every request to the API host carries it
\* when a token is configured.
AuthOnEveryApiHostRequest ==
    \A r \in requests :
        /\ r.auth => (TokenConfigured /\ Host(r.url) = API_HOST)
        /\ r.via \in {"ping_url", "read_csv_url"} => ~r.auth
        /\ (TokenConfigured /\ Host(r.url) = API_HOST) => r.auth

\* C2, amended: as claimed, except that the requests to the API host that
\* carry the header when a token is configured are those of http_json (all of
\* which go to the API host); a request of ping_url or read_csv_url to the API
\* host does not carry it.
AuthOnlyFromHttpJson ==
    \A r \in requests :
        /\ r.auth => (TokenConfigured /\ Host(r.url) = API_HOST)
        /\ r.via \in {"ping_url", "read_csv_url"} => ~r.auth
        /\ r.via = "http_json" =>
              /\ Host(r.url) = API_HOST
              /\ TokenConfigured => r.auth

AuthWitness ==
    /\ TokenConfigured
    /\ \E r \in requests : r.via = "http_json" /\ r.auth
    /\ \E r \in requests :
          r.via = "ping_url" /\ Host(r.url) = API_HOST /\ ~r.auth
    /\ \E r \in requests :
          r.via = "read_csv_url" /\ Host(r.url) # API_HOST /\ ~r.auth

-----------------------------------------------------------------------------
(* C8, C9 *)

Shown(x) == \E i \in 1..Len(page) : page[i] = x

\* C8: a CSV origin that fails to parse gives no rows and a warning, and
\* never ends the script: every run reaches the 'Last refreshed' caption.
CsvFailureNeverFatal ==
    /\ pc # "crashed"
    /\ pc = "done" =>
          /\ page[Len(page)] = "caption: last refreshed"
          /\ loaded.url = "failed" =>
                /\ Shown("warning: could not read CSV from URL")
                /\ ~Shown("external data table")
          /\ loaded.local = "failed" =>
                Shown("warning: found file but could not read it")
          /\ loaded.upload # "failed"

\* the part of C8 the code keeps: the URL and the file on disk
CsvFailureWarned ==
    /\ pc = "done"
    /\ loaded.url = "failed"
    /\ loaded.local = "failed"
    /\ Shown("warning: could not read CSV from URL")
    /\ Shown("warning: found file but could not read it")
    /\ page[Len(page)] = "caption: last refreshed"

\* C9: in a live run where fetch_repo_stats or fetch_commit_history raised,
\* neither the status cards nor the snapshot table are on the page, one error
\* message is, and the external-data section is rendered afterwards.
LiveFailureAllOrNothing ==
    (live_mode /\ failed # {} /\ pc \in {"external", "footer", "done", "crashed"}) =>
        /\ ~Shown("status cards")
        /\ ~Shown("repository snapshot table")
        /\ Cardinality({ i \in 1..Len(page) : page[i] = "error: live mode failed" }) = 1
        /\ pc \in {"done", "crashed"} => Shown("tabs")

\* the part of C9 the code keeps: a failure of fetch_repo_stats
LiveStatsFailure ==
    /\ pc = "done"
    /\ live_mode
    /\ failed = {"fetch_repo_stats"}
    /\ ~Shown("status cards")
    /\ Shown("error: live mode failed")
    /\ Shown("tabs")

-----------------------------------------------------------------------------
(* C3 *)

PingOutcomeShape ==
    /\ "ok" \in DOMAIN call.out
    /\ call.resp.kind = "transport_error" =>
         /\ call.out.ok = FALSE
         /\ Field(call.out, "status_code") = Null
         /\ Field(call.out, "latency_s") = Null
         /\ Field(call.out, "error") # Null
    /\ ~(Field(call.out, "error") # Null /\ Field(call.out, "status_code") # Null)

\* C3, as claimed: ping_url always returns a result; ok is true iff a response
\* came with a status in [200,400); a transport exception gives ok false, no
\* status, no latency and an error; an error and a status never come together.
PingOkIffStatus200To399 ==
    call.fn = "ping_url" =>
        /\ PingOutcomeShape
        /\ call.out.ok <=> (/\ call.resp.kind = "response"
                            /\ 200 <= call.resp.status
                            /\ call.resp.status < 400)

\* C3, amended: as claimed, except that ok is true iff a response came with a
\* status outside [400,600): a status below 200 or from 600 up counts as ok.
PingOkIffStatusNot400To599 ==
    call.fn = "ping_url" =>
        /\ PingOutcomeShape
        /\ call.out.ok <=> (/\ call.resp.kind = "response"
                            /\ ~(400 <= call.resp.status /\ call.resp.status < 600))

PingWitness ==
    /\ call.fn = "ping_url"
    /\ call.resp.kind = "response"
    /\ call.resp.status = 999
    /\ call.out.ok
    /\ call.out.status_code = Num(999)
    /\ "error" \notin DOMAIN call.out

-----------------------------------------------------------------------------
(* C4 *)

RequestErrors(resp) ==
    \/ resp.kind = "transport_error"
    \/ resp.status \in 400..599
    \/ resp.body.t = "unparseable"

\* C4: fetch_repo_extended always returns the five counters; a counter whose
\* request errors (transport, HTTP status, unparseable body) is 0, a counter
\* whose request returns a list is the length of the list, a counter whose
\* request returns a mapping with a numeric total_count is that number, each
\* whatever the other four requests did.
ExtendedCountersIndependent ==
    call.fn = "fetch_repo_extended" =>
        /\ DOMAIN call.out = CounterSet
        /\ \A c \in CounterSet :
             LET resp == call.resps[c]
             IN  /\ RequestErrors(resp) => call.out[c] = 0
                 /\ (~RequestErrors(resp) /\ resp.body.t = "list") =>
                        call.out[c] = Len(resp.body.v)
                 /\ (/\ ~RequestErrors(resp)
                     /\ resp.body.t = "dict"
                     /\ "total_count" \in DOMAIN resp.body.v
                     /\ resp.body.v.total_count.t = "num") =>
                        call.out[c] = resp.body.v.total_count.v

ExtendedWitness ==
    /\ call.fn = "fetch_repo_extended"
    /\ call.resps["contributors"].kind = "response"
    /\ call.resps["contributors"].status = 403
    /\ call.resps["branches"] = TransportError
    /\ call.out = [contributors |-> 0, branches |-> 0, releases |-> MaxItems,
                   tags |-> 7, pulls_open |-> MaxItems]

-----------------------------------------------------------------------------
(* C5 *)

\* the commit carries a non-empty author timestamp
HasStamp(c) ==
    /\ "commit" \in DOMAIN c.v
    /\ c.v.commit.t = "dict"
    /\ "author" \in DOMAIN c.v.commit.v
    /\ c.v.commit.v.author.t = "dict"
    /\ "date" \in DOMAIN c.v.commit.v.author.v
    /\ c.v.commit.v.author.v.date.t = "str"
    /\ c.v.commit.v.author.v.date.v # <<>>

\* the day, in the display zone, of a stamped commit
StampDay(c) ==
    LET d == c.v.commit.v.author.v.date.v
    IN  (d[1] * 24 + d[2] + TZ) \div 24

RECURSIVE SumCommits(_)
SumCommits(daily) ==
    IF daily = <<>> THEN 0 ELSE Head(daily).commits + SumCommits(Tail(daily))

\* C5: for a commit list from the commits endpoint fetch_commit_history
\* returns one row per calendar date (in the display zone) of the commits
\* that carry an author timestamp, the dates ascending, each row counting the
\* stamped commits of its date; the counts are at least 1 and sum to the
\* number of stamped commits; with no stamped commit the series is empty.
HistoryDailySeries ==
    (/\ call.fn = "fetch_commit_history"
     /\ call.resp.kind = "response"
     /\ call.resp.status = 200) =>
        LET cs      == call.resp.body.v
            stamped == { i \in 1..Len(cs) : HasStamp(cs[i]) }
        IN  /\ ~call.out.raised
            /\ LET daily == call.out.daily
               IN  /\ \A k \in 1..(Len(daily) - 1) : daily[k].date < daily[k + 1].date
                   /\ { daily[k].date : k \in 1..Len(daily) }
                        = { StampDay(cs[i]) : i \in stamped }
                   /\ \A k \in 1..Len(daily) :
                        /\ daily[k].commits >= 1
                        /\ daily[k].commits
                             = Cardinality({ i \in stamped : StampDay(cs[i]) = daily[k].date })
                   /\ SumCommits(daily) = Cardinality(stamped)
                   /\ stamped = {} => daily = <<>>

\* the example of the specification: 10:00 and 22:00 of one day and 01:00 of
\* the next, zone UTC
HistoryWitness ==
    /\ call.fn = "fetch_commit_history"
    /\ TZ = 0
    /\ call.resp.kind = "response"
    /\ call.resp.status = 200
    /\ call.resp.body = List(<<DatedCommit(0, 10), DatedCommit(0, 22), DatedCommit(1, 1)>>)
    /\ call.out.daily = <<[date |-> 0, commits |-> 2], [date |-> 1, commits |-> 1]>>

-----------------------------------------------------------------------------
(* C6, C7 *)

CommitFieldsNull(stats) ==
    /\ stats.latest_commit_sha = Null
    /\ stats.latest_commit_message = Null
    /\ stats.latest_commit_author = Null
    /\ stats.latest_commit_datetime = Null

\* C6: when the repository call and the commits call both succeed,
\* fetch_repo_stats does not raise, whichever optional fields are absent or
\* null in the two bodies (a latest commit with a null commit or a null author
\* included); with an empty commit list the four commit fields are null.
StatsToleratesMissingFields ==
    (/\ call.fn = "fetch_repo_stats"
     /\ ~RequestErrors(call.repoResp)
     /\ ~RequestErrors(call.commitsResp)) =>
        /\ ~call.out.raised
        /\ call.commitsResp.body = List(<<>>) => CommitFieldsNull(call.out.stats)

\* the part of C6 the code keeps: the empty commit list
StatsEmptyCommitList ==
    /\ call.fn = "fetch_repo_stats"
    /\ ~RequestErrors(call.repoResp)
    /\ call.commitsResp.kind = "response"
    /\ call.commitsResp.body = List(<<>>)
    /\ ~call.out.raised
    /\ CommitFieldsNull(call.out.stats)

\* C7: fetch_repo_stats fails only if the repository call errors: when that
\* call succeeds, the function returns a record whatever the commits call
\* did, with null commit fields when the commits call errored.
StatsFailsOnlyOnRepoError ==
    (/\ call.fn = "fetch_repo_stats"
     /\ ~RequestErrors(call.repoResp)) =>
        /\ ~call.out.raised
        /\ RequestErrors(call.commitsResp) => CommitFieldsNull(call.out.stats)

-----------------------------------------------------------------------------
(* C10 *)

EditorLink(id, gid) == HTTPS \o SHEETS_MARK \o id \o <<"/", "edit">> \o GID_MARK \o gid
EditorLinkNoGid(id) == HTTPS \o SHEETS_MARK \o id \o <<"/", "edit">>
ExportLink(id, gid) == HTTPS \o SHEETS_MARK \o id \o EXPORT_MARK \o <<"&gid=">> \o gid
Ids == {<<"ABC123">>, <<"42">>}

====
